---- MODULE Spec2Model ----
(***************************************************************************)
(* Card-path preview game: the move engine (game.ts), the animation        *)
(* primitives and scheduler (anim.ts), the step reconciliation core and    *)
(* the preview controller (main.ts).                                       *)
(*                                                                         *)
(* Times are milliseconds.  Values the code keeps as fractions of one      *)
(* (card highlight, popup opacity) are kept in thousandths.  The path      *)
(* score of the hint search is kept doubled, so that it stays an integer.  *)
(***************************************************************************)
EXTENDS Integers, Sequences, FiniteSets, TLC

VARIABLES
    committedState,     \* main.ts: committedState (path and energy of a GameState)
    previewStack,       \* main.ts: previewStack
    desiredSteps,       \* main.ts: desiredSteps
    animatedSteps,      \* main.ts: animatedSteps
    checkForAnimation,  \* main.ts: checkForAnimation, the dirty flag
    currentAnimation,   \* anim.ts: currentAnimation
    turboMode,          \* anim.ts: turboMode
    animationSpeed,     \* anim.ts: animationSpeed
    scene,              \* render.ts: scene
    hintTimers,         \* pending setTimeout callbacks of showHint
    thrown,             \* scheduleAnimation has thrown; the frame loop is dead
    frame,              \* history: what the latest update() call did
    burst,              \* history: the input calls made since the latest update() call
    undoRun,            \* history: steps popped by undo since reconciliation last ran
    inputCalls,         \* history: advance() and undo() calls made so far
    lastCall,           \* history: the state a successful advance() was called in
    played              \* history: frame time, scaled, the active animation has been given

vars == <<committedState, previewStack, desiredSteps, animatedSteps,
          checkForAnimation, currentAnimation, turboMode, animationSpeed,
          scene, hintTimers, thrown, frame, burst, undoRun, inputCalls, lastCall,
          played>>

-----------------------------------------------------------------------------
(* Bounds of the model *)

\* Longest desiredSteps log the model lets advance() build.
MaxSteps == 2
\* Most energy a turn may have spent at the moment it is committed.
MaxSpent == 1
\* Most showHint timeouts pending at once.
MaxTimers == 2
\* Timestamp of the frame before the one being modelled.
Epoch == 16
\* Most advance() and undo() calls before input stops.
MaxInputs == 5
\* Cells the input handlers pass to advance(): 0 and 2 are not adjacent.
InputCells == {0, 1, 2}
\* Time between two animation frames.
FrameDeltas == {800}

-----------------------------------------------------------------------------
(* game.ts *)

ALL_INDEXES == <<0, 1, 2, 3, 4, 5, 6, 7, 8>>

Cells == 0..8

pathAdjacentIndexes == [c \in Cells |->
    CASE c = 0 -> <<1, 3, 4>>
      [] c = 1 -> <<0, 2, 3, 4, 5>>
      [] c = 2 -> <<1, 4, 5>>
      [] c = 3 -> <<0, 1, 4, 6, 7>>
      [] c = 4 -> <<0, 1, 2, 3, 5, 6, 7, 8>>
      [] c = 5 -> <<1, 2, 4, 7, 8>>
      [] c = 6 -> <<3, 4, 7>>
      [] c = 7 -> <<3, 4, 5, 6, 8>>
      [] c = 8 -> <<4, 5, 7>>]

\* initGame: energy: 7
StartEnergy == 7

\* One board initGame can deal: nine cards of the fifteen-card deck (cost i % 3).
Board == <<2, 0, 1, 0, 1, 2, 0, 1, 2>>

cost(c) == Board[c + 1]

\* A GameState is its path and energy.  The board is dealt once and never
\* written again; deck, discard, health and gold are never read after initGame.
initGame == [path |-> <<>>, energy |-> StartEnergy]

Range(s) == {s[i] : i \in 1..Len(s)}

includes(s, x) == x \in Range(s)

last(s) == s[Len(s)]

indexToCoord(index) == [x |-> index % 3, y |-> index \div 3]

isAdjacent(startIndex, endIndex) ==
    LET start == indexToCoord(startIndex)
        end == indexToCoord(endIndex)
    IN  /\ end.x >= start.x - 1
        /\ end.x <= start.x + 1
        /\ end.y >= start.y - 1
        /\ end.y <= start.y + 1

RECURSIVE difference(_, _)
difference(array, values) ==
    IF array = <<>> THEN <<>>
    ELSE IF includes(values, Head(array)) THEN difference(Tail(array), values)
         ELSE <<Head(array)>> \o difference(Tail(array), values)

\* validInputs that leaves the cells of the path in
validInputsOnPath(prev) ==
    IF Len(prev.path) = 0 THEN ALL_INDEXES
    ELSE pathAdjacentIndexes[last(prev.path)]

validInputs(prev) ==
    IF Len(prev.path) = 0 THEN ALL_INDEXES
    ELSE difference(pathAdjacentIndexes[last(prev.path)], prev.path)

PathSelection(selectedIndex) == [type |-> "PathSelection", selectedIndex |-> selectedIndex, amount |-> 0]

EnergyLoss(amount) == [type |-> "EnergyLoss", selectedIndex |-> 0, amount |-> amount]

\* The Error values next() returns (it never throws).
ErrorOnPath == [error |-> TRUE, message |-> "Invalid move, selection already on path."]

ErrorNotAdjacent == [error |-> TRUE, message |-> "Invalid move, selection must be adjacent to last step."]

\* next() with a cost that grows by one with every cell already on the path
nextSteeper(prev, input) ==
    IF includes(prev.path, input) THEN ErrorOnPath
    ELSE IF Len(prev.path) > 0 /\ ~isAdjacent(last(prev.path), input) THEN ErrorNotAdjacent
    ELSE [error |-> FALSE,
          state |-> [path |-> Append(prev.path, input),
                     energy |-> prev.energy - cost(input)],
          events |-> <<PathSelection(input)>> \o
                     (IF cost(input) + Len(prev.path) # 0
                      THEN <<EnergyLoss(cost(input) + Len(prev.path))>> ELSE <<>>)]

\* next() without the test of the cells already on the path
nextRevisit(prev, input) ==
    IF Len(prev.path) > 0 /\ ~isAdjacent(last(prev.path), input) THEN ErrorNotAdjacent
    ELSE [error |-> FALSE,
          state |-> [path |-> Append(prev.path, input),
                     energy |-> prev.energy - cost(input)],
          events |-> <<PathSelection(input)>> \o
                     (IF cost(input) # 0 THEN <<EnergyLoss(cost(input))>> ELSE <<>>)]

\* next() without the adjacency test
nextAnywhere(prev, input) ==
    IF includes(prev.path, input) THEN ErrorOnPath
    ELSE [error |-> FALSE,
          state |-> [path |-> Append(prev.path, input),
                     energy |-> prev.energy - cost(input)],
          events |-> <<PathSelection(input)>> \o
                     (IF cost(input) # 0 THEN <<EnergyLoss(cost(input))>> ELSE <<>>)]

next(prev, input) ==
    IF includes(prev.path, input) THEN ErrorOnPath
    ELSE IF Len(prev.path) > 0 /\ ~isAdjacent(last(prev.path), input) THEN ErrorNotAdjacent
    ELSE [error |-> FALSE,
          state |-> [path |-> Append(prev.path, input),
                     energy |-> prev.energy - cost(input)],
          events |-> <<PathSelection(input)>> \o
                     (IF cost(input) # 0 THEN <<EnergyLoss(cost(input))>> ELSE <<>>)]

\* endTurn that leaves the path in place
endTurnPathKept(prev) == prev

endTurn(prev) == [prev EXCEPT !.path = <<>>]

-----------------------------------------------------------------------------
(* ai.ts *)

\* evaluate() doubled: path.length * 0.5 + state.energy
evaluate(state, path) == Len(path) + 2 * state.energy

NoBest == [found |-> FALSE, score |-> 0, path |-> <<>>]

RECURSIVE enumerateFrom(_, _)
RECURSIVE enumerateMoves(_, _, _)
enumerateFrom(start, best) ==
    IF start.energy <= 0 THEN best
    ELSE LET considered ==
                 IF Len(start.path) >= 2
                 THEN LET score == evaluate(endTurn(start), start.path)
                      IN  IF ~best.found \/ score > best.score
                          THEN [found |-> TRUE, score |-> score, path |-> start.path]
                          ELSE best
                 ELSE best
         IN  enumerateMoves(start, validInputs(start), considered)

enumerateMoves(start, validMoves, best) ==
    IF validMoves = <<>> THEN best
    ELSE LET nextState == next(start, Head(validMoves))
             after == IF nextState.error THEN best ELSE enumerateFrom(nextState.state, best)
         IN  \* both branches are the loop's next round: the test only makes the
             \* best path so far be evaluated before the next move is tried
             IF after.found
             THEN enumerateMoves(start, Tail(validMoves), after)
             ELSE enumerateMoves(start, Tail(validMoves), after)

\* The suggested path, or <<>> for undefined (a suggested path has two cells or more).
enumerateAll(initState) == enumerateFrom(initState, NoBest).path

\* enumerateAll for every state commit() can produce: the committed path is
\* always empty, and the energy lies between the bounds below.
suggestions == [energy \in (StartEnergy - MaxSpent - 1)..StartEnergy |->
                   enumerateAll([path |-> <<>>, energy |-> energy])]

-----------------------------------------------------------------------------
(* anim.ts *)

NoAnimation == [kind |-> "none"]

HighlightDuration == 500

rampUp == 200

stable == 800

duration == 1600

fadeout == duration - stable

NormalSpeed == 1

TurboSpeed == 4

clamp(number, lower, upper) ==
    IF number < lower THEN lower ELSE IF number > upper THEN upper ELSE number

\* A primitive animation: the closure of animationUpdater (prevTimestamp, elapsed)
\* with the arguments of animateHighlight (card, reverse) or animateEnergyChange (amount).
animateHighlight(card, reverse) ==
    [kind |-> "highlight", card |-> card, reverse |-> reverse, amount |-> 0,
     prevSet |-> FALSE, prevTimestamp |-> 0, elapsed |-> 0]

animateEnergyChange(amount) ==
    [kind |-> "energy", card |-> 0, reverse |-> FALSE, amount |-> amount,
     prevSet |-> FALSE, prevTimestamp |-> 0, elapsed |-> 0]

animateParallel(anims) == [kind |-> "parallel", anims |-> anims]

\* The closure of animateSequence: its children and the index current (from 0).
animateSequence(anims) == [kind |-> "sequence", anims |-> anims, current |-> 0]

\* animateHighlight that is over only after its duration
highlightUpdateLate(a, elapsed, sc) ==
    IF elapsed > HighlightDuration THEN [done |-> TRUE, scene |-> sc]
    ELSE [done |-> FALSE,
          scene |-> [sc EXCEPT !.cards[a.card] =
              IF ~a.reverse
              THEN clamp((elapsed * 1000) \div HighlightDuration, 0, 1000)
              ELSE clamp(1000 - (elapsed * 1000) \div HighlightDuration, 0, 1000)]]

\* callbacks.update of animateHighlight
highlightUpdate(a, elapsed, sc) ==
    IF elapsed >= HighlightDuration THEN [done |-> TRUE, scene |-> sc]
    ELSE [done |-> FALSE,
          scene |-> [sc EXCEPT !.cards[a.card] =
              IF ~a.reverse
              THEN clamp((elapsed * 1000) \div HighlightDuration, 0, 1000)
              ELSE clamp(1000 - (elapsed * 1000) \div HighlightDuration, 0, 1000)]]

\* animateEnergyChange that does not look at turboMode
energyUpdateNoTurbo(a, elapsed, sc) ==
    IF elapsed >= duration THEN [done |-> TRUE, scene |-> sc]
    ELSE [done |-> FALSE,
          scene |-> [sc EXCEPT !.energyChangeOpacity =
              IF elapsed < rampUp THEN clamp((elapsed * 1000) \div rampUp, 0, 1000)
              ELSE IF elapsed < stable THEN 1000
              ELSE clamp(1000 - ((elapsed - stable) * 1000) \div fadeout, 0, 1000)]]

\* callbacks.update of animateEnergyChange
energyUpdate(a, elapsed, sc) ==
    IF turboMode \/ elapsed >= duration THEN [done |-> TRUE, scene |-> sc]
    ELSE [done |-> FALSE,
          scene |-> [sc EXCEPT !.energyChangeOpacity =
              IF elapsed < rampUp THEN clamp((elapsed * 1000) \div rampUp, 0, 1000)
              ELSE IF elapsed < stable THEN 1000
              ELSE clamp(1000 - ((elapsed - stable) * 1000) \div fadeout, 0, 1000)]]

\* callbacks.init (noop for the highlight)
init(a, sc) == IF a.kind = "energy" THEN [sc EXCEPT !.energyChange = a.amount] ELSE sc

\* callbacks.cleanup (noop for the highlight)
cleanup(a, sc) == IF a.kind = "energy" THEN [sc EXCEPT !.energyChangeOpacity = 0] ELSE sc

updater(a, elapsed, sc) ==
    IF a.kind = "highlight" THEN highlightUpdate(a, elapsed, sc) ELSE energyUpdate(a, elapsed, sc)

\* !prevTimestamp: undefined, or a timestamp of 0
noPrevTimestamp(a) == ~a.prevSet \/ a.prevTimestamp = 0

\* animationUpdater that scales all the time elapsed by the speed in force
animationUpdaterRescaled(a, timestamp, sc) ==
    LET prevTimestamp == IF noPrevTimestamp(a) THEN timestamp ELSE a.prevTimestamp
        delta == timestamp - prevTimestamp
        elapsed == (a.elapsed + delta) * animationSpeed
        called == [a EXCEPT !.prevSet = TRUE, !.prevTimestamp = timestamp, !.elapsed = elapsed]
    IN  IF elapsed = 0
        THEN [done |-> FALSE, anim |-> called, scene |-> init(a, sc), init |-> TRUE]
        ELSE [done |-> updater(a, elapsed, sc).done, anim |-> called, init |-> FALSE,
              scene |-> IF updater(a, elapsed, sc).done
                        THEN cleanup(a, updater(a, elapsed, sc).scene)
                        ELSE updater(a, elapsed, sc).scene]

\* The end of animationUpdater's update: cleanup() runs if the updater is done.
updaterResult(a, called, r) ==
    [done |-> r.done, anim |-> called, init |-> FALSE,
     scene |-> IF r.done THEN cleanup(a, r.scene) ELSE r.scene]

\* One call of the function animationUpdater returns: the value returned (done),
\* the closure and the scene after it, and whether the call ran init().
animationUpdater(a, timestamp, sc) ==
    LET prevTimestamp == IF noPrevTimestamp(a) THEN timestamp ELSE a.prevTimestamp
        delta == timestamp - prevTimestamp
        elapsed == a.elapsed + delta * animationSpeed
        called == [a EXCEPT !.prevSet = TRUE, !.prevTimestamp = timestamp, !.elapsed = elapsed]
    IN  IF elapsed = 0
        THEN [done |-> FALSE, anim |-> called, scene |-> init(a, sc), init |-> TRUE]
        ELSE updaterResult(a, called, updater(a, elapsed, sc))

\* "done = animation(timestamp) && done" over the children called so far
parallelResult(first, rest) ==
    [done |-> first.done /\ rest.done,
     anims |-> <<first.anim>> \o rest.anims,
     scene |-> rest.scene]

\* animateParallel with "done = done && animation(timestamp)": the children after
\* one that is not done are not called
RECURSIVE parallelUpdateShort(_, _, _)
parallelUpdateShort(anims, timestamp, sc) ==
    IF anims = <<>> THEN [done |-> TRUE, anims |-> <<>>, scene |-> sc]
    ELSE IF animationUpdater(Head(anims), timestamp, sc).done
         THEN parallelResult(animationUpdater(Head(anims), timestamp, sc),
                  parallelUpdateShort(Tail(anims), timestamp,
                      animationUpdater(Head(anims), timestamp, sc).scene))
         ELSE [done |-> FALSE,
               anims |-> <<animationUpdater(Head(anims), timestamp, sc).anim>> \o Tail(anims),
               scene |-> animationUpdater(Head(anims), timestamp, sc).scene]

\* One call of the function animateParallel returns: every child is called, in order.
RECURSIVE parallelUpdate(_, _, _)
RECURSIVE parallelRest(_, _, _)
parallelUpdate(anims, timestamp, sc) ==
    IF anims = <<>> THEN [done |-> TRUE, anims |-> <<>>, scene |-> sc]
    ELSE parallelRest(animationUpdater(Head(anims), timestamp, sc), Tail(anims), timestamp)

parallelRest(first, anims, timestamp) ==
    CHOOSE result \in {parallelResult(called, parallelUpdate(anims, timestamp, called.scene)) :
        called \in {first}} : TRUE

\* animateSequence that moves on to the next child at every call
sequenceUpdateAll(seq, timestamp, sc) ==
    IF seq.current >= Len(seq.anims)
    THEN [done |-> TRUE, anims |-> seq.anims, current |-> seq.current, scene |-> sc]
    ELSE [done |-> FALSE,
          anims |-> [seq.anims EXCEPT ![seq.current + 1] =
                        animationUpdater(seq.anims[seq.current + 1], timestamp, sc).anim],
          current |-> seq.current + 1,
          scene |-> animationUpdater(seq.anims[seq.current + 1], timestamp, sc).scene]

\* One call of the function animateSequence returns: only anims[current] is
\* called (the sequences of the model count from 1, current from 0).
sequenceUpdate(seq, timestamp, sc) ==
    IF seq.current >= Len(seq.anims)
    THEN [done |-> TRUE, anims |-> seq.anims, current |-> seq.current, scene |-> sc]
    ELSE [done |-> FALSE,
          anims |-> [seq.anims EXCEPT ![seq.current + 1] =
                        animationUpdater(seq.anims[seq.current + 1], timestamp, sc).anim],
          current |-> IF animationUpdater(seq.anims[seq.current + 1], timestamp, sc).done
                      THEN seq.current + 1 ELSE seq.current,
          scene |-> animationUpdater(seq.anims[seq.current + 1], timestamp, sc).scene]

\* currentAnimation(timestamp): the call of whichever animation is scheduled.
callAnimation(anim, timestamp, sc) ==
    IF anim.kind = "sequence" THEN sequenceUpdate(anim, timestamp, sc)
    ELSE parallelUpdate(anim.anims, timestamp, sc)

\* The closure of animation anim after the call that returned r.
calledAnimation(anim, r) ==
    IF anim.kind = "sequence" THEN [anim EXCEPT !.anims = r.anims, !.current = r.current]
    ELSE [anim EXCEPT !.anims = r.anims]

\* updateAnimations that keeps a finished animation
animationResultKept(anim, r) ==
    [done |-> r.done,
     currentAnimation |-> calledAnimation(anim, r),
     scene |-> r.scene]

\* updateAnimations once currentAnimation(timestamp) has returned r
animationResult(anim, r) ==
    [done |-> r.done,
     currentAnimation |-> IF r.done THEN NoAnimation ELSE calledAnimation(anim, r),
     scene |-> r.scene]

\* updateAnimations: the new currentAnimation and scene, and the value returned.
updateAnimations(timestamp) ==
    IF currentAnimation # NoAnimation
    THEN CHOOSE result \in {animationResult(currentAnimation, r) :
                 r \in {callAnimation(currentAnimation, timestamp, scene)}} : TRUE
    ELSE [done |-> TRUE, currentAnimation |-> NoAnimation, scene |-> scene]

\* scheduleAnimation without the test of currentAnimation
scheduleAnimationOver(current, anim) == [currentAnimation |-> anim, thrown |-> FALSE]

\* scheduleAnimation, called when the active animation is current.
scheduleAnimation(current, anim) ==
    IF current # NoAnimation
    THEN [currentAnimation |-> current, thrown |-> TRUE]
    ELSE [currentAnimation |-> anim, thrown |-> FALSE]

-----------------------------------------------------------------------------
(* main.ts *)

\* A pop that removes nothing
popNothing(array) == array

\* Array.prototype.pop: nothing happens on an empty array.
pop(array) == IF array = <<>> THEN array ELSE SubSeq(array, 1, Len(array) - 1)

slice(array, start) == SubSeq(array, start + 1, Len(array))

RECURSIVE flatMap(_)
flatMap(steps) == IF steps = <<>> THEN <<>> ELSE Head(steps).events \o flatMap(Tail(steps))

Inputs(steps) == [i \in 1..Len(steps) |-> steps[i].input]

\* getAnimation that shows the amount lost as it is
getAnimationPositive(events) ==
    LET newAnimations == [i \in 1..Len(events) |->
            IF events[i].type = "PathSelection"
            THEN animateHighlight(events[i].selectedIndex, FALSE)
            ELSE animateEnergyChange(events[i].amount)]
    IN  IF Len(newAnimations) # 0 THEN animateParallel(newAnimations) ELSE NoAnimation

\* getAnimation; NoAnimation stands for undefined.
getAnimation(events) ==
    LET newAnimations == [i \in 1..Len(events) |->
            IF events[i].type = "PathSelection"
            THEN animateHighlight(events[i].selectedIndex, FALSE)
            ELSE animateEnergyChange(-events[i].amount)]
    IN  IF Len(newAnimations) # 0 THEN animateParallel(newAnimations) ELSE NoAnimation

RECURSIVE sumEnergyLoss(_)
sumEnergyLoss(events) ==
    IF events = <<>> THEN 0
    ELSE (IF Head(events).type = "EnergyLoss" THEN Head(events).amount ELSE 0)
         + sumEnergyLoss(Tail(events))

\* getReverseAnimation that shows every energy loss by itself
getReverseAnimationEach(events) ==
    LET newAnimations == [i \in 1..Len(events) |->
            IF events[i].type = "PathSelection"
            THEN animateHighlight(events[i].selectedIndex, TRUE)
            ELSE animateEnergyChange(events[i].amount)]
    IN  IF Len(newAnimations) # 0 THEN animateParallel(newAnimations) ELSE NoAnimation

\* getReverseAnimation; NoAnimation stands for undefined.
getReverseAnimation(events) ==
    LET selections == SelectSeq(events, LAMBDA e : e.type = "PathSelection")
        highlights == [i \in 1..Len(selections) |->
            animateHighlight(selections[i].selectedIndex, TRUE)]
        totalEnergyLoss == sumEnergyLoss(events)
        newAnimations == IF totalEnergyLoss # 0
                         THEN Append(highlights, animateEnergyChange(totalEnergyLoss))
                         ELSE highlights
    IN  IF Len(newAnimations) # 0 THEN animateParallel(newAnimations) ELSE NoAnimation

\* updateScene that leaves the path behind
updateSceneEnergy(sc, nextStep) == [sc EXCEPT !.energy = nextStep.energy]

updateScene(sc, nextStep) == [sc EXCEPT !.energy = nextStep.energy, !.path = nextStep.path]

latestState == IF Len(previewStack) # 0 THEN last(previewStack) ELSE committedState

getCurrentPath == latestState.path

RECURSIVE sharedPrefixFrom(_, _, _)
sharedPrefixFrom(i, current, desired) ==
    IF i < Len(current) /\ i < Len(desired) /\ current[i + 1] = desired[i + 1]
    THEN sharedPrefixFrom(i + 1, current, desired)
    ELSE i

\* sharedPrefixLength that finds no shared prefix
sharedPrefixNone(current, desired) == 0

\* sharedPrefixLength that stops one element early
sharedPrefixShort(current, desired) ==
    IF sharedPrefixFrom(0, current, desired) > 0
    THEN sharedPrefixFrom(0, current, desired) - 1
    ELSE 0

\* sharedPrefixLength that never compares the entries
sharedPrefixUncompared(current, desired) ==
    IF Len(current) < Len(desired) THEN Len(current) ELSE Len(desired)

sharedPrefixLength(current, desired) == sharedPrefixFrom(0, current, desired)

\* A rollback that takes the last animated step only
rollbackLast(animated, sharedPrefix) ==
    IF Len(animated) > sharedPrefix THEN slice(animated, Len(animated) - 1) ELSE <<>>

\* Already animated, but no longer needed
rollbackSteps(animated, sharedPrefix) == slice(animated, sharedPrefix)

\* Not yet animated
animateSteps(desired, sharedPrefix) == slice(desired, sharedPrefix)

\* A branch of scheduleNextAnimation that changes the log only if it has an
\* animation to schedule
scheduleIfAnyStalled(current, steps, anim, direction) ==
    IF anim # NoAnimation
    THEN [animatedSteps |-> steps,
          checkForAnimation |-> checkForAnimation,
          currentAnimation |-> scheduleAnimation(current, anim).currentAnimation,
          thrown |-> scheduleAnimation(current, anim).thrown,
          scheduled |-> direction,
          calls |-> 1]
    ELSE [animatedSteps |-> animatedSteps,
          checkForAnimation |-> checkForAnimation,
          currentAnimation |-> current,
          thrown |-> FALSE,
          scheduled |-> "none",
          calls |-> 0]

\* A branch of scheduleNextAnimation that clears the dirty flag as it schedules
scheduleIfAnyClean(current, steps, anim, direction) ==
    IF anim # NoAnimation
    THEN [animatedSteps |-> steps,
          checkForAnimation |-> FALSE,
          currentAnimation |-> scheduleAnimation(current, anim).currentAnimation,
          thrown |-> scheduleAnimation(current, anim).thrown,
          scheduled |-> direction,
          calls |-> 1]
    ELSE [animatedSteps |-> steps,
          checkForAnimation |-> checkForAnimation,
          currentAnimation |-> current,
          thrown |-> FALSE,
          scheduled |-> "none",
          calls |-> 0]

\* "if (anim) { scheduleAnimation(anim); }" after animatedSteps became `steps`
scheduleIfAny(current, steps, anim, direction) ==
    IF anim # NoAnimation
    THEN [animatedSteps |-> steps,
          checkForAnimation |-> checkForAnimation,
          currentAnimation |-> scheduleAnimation(current, anim).currentAnimation,
          thrown |-> scheduleAnimation(current, anim).thrown,
          scheduled |-> direction,
          calls |-> 1]
    ELSE [animatedSteps |-> steps,
          checkForAnimation |-> checkForAnimation,
          currentAnimation |-> current,
          thrown |-> FALSE,
          scheduled |-> "none",
          calls |-> 0]

\* scheduleNextAnimation whose rollback branch does not return
scheduleBranchesThrough(current, sharedPrefix, rollback, animate) ==
    IF Len(rollback) # 0 /\ Len(animate) # 0
    THEN [animatedSteps |-> Append(SubSeq(animatedSteps, 1, sharedPrefix), animate[1]),
          checkForAnimation |-> checkForAnimation,
          currentAnimation |-> getReverseAnimation(flatMap(rollback)),
          thrown |-> TRUE,
          scheduled |-> "reverse",
          calls |-> 2]
    ELSE IF Len(rollback) # 0
    THEN scheduleIfAny(current, SubSeq(animatedSteps, 1, sharedPrefix),
                       getReverseAnimation(flatMap(rollback)), "reverse")
    ELSE IF Len(animate) # 0
    THEN scheduleIfAny(current, Append(animatedSteps, animate[1]),
                       getAnimation(animate[1].events), "forward")
    ELSE [animatedSteps |-> animatedSteps,
          checkForAnimation |-> FALSE,
          currentAnimation |-> current,
          thrown |-> FALSE,
          scheduled |-> "none",
          calls |-> 0]

\* scheduleNextAnimation that rolls back one step per run
scheduleBranchesBackOne(current, sharedPrefix, rollback, animate) ==
    IF Len(rollback) # 0
    THEN scheduleIfAny(current, SubSeq(animatedSteps, 1, Len(animatedSteps) - 1),
                       getReverseAnimation(flatMap(rollback)), "reverse")
    ELSE IF Len(animate) # 0
    THEN scheduleIfAny(current, Append(animatedSteps, animate[1]),
                       getAnimation(animate[1].events), "forward")
    ELSE [animatedSteps |-> animatedSteps,
          checkForAnimation |-> FALSE,
          currentAnimation |-> current,
          thrown |-> FALSE,
          scheduled |-> "none",
          calls |-> 0]

\* scheduleNextAnimation that clears the dirty flag as it schedules the last
\* step to animate
scheduleBranchesEager(current, sharedPrefix, rollback, animate) ==
    IF Len(rollback) # 0
    THEN scheduleIfAny(current, SubSeq(animatedSteps, 1, sharedPrefix),
                       getReverseAnimation(flatMap(rollback)), "reverse")
    ELSE IF Len(animate) # 0
    THEN [scheduleIfAny(current, Append(animatedSteps, animate[1]),
                        getAnimation(animate[1].events), "forward")
             EXCEPT !.checkForAnimation = Len(animate) > 1]
    ELSE [animatedSteps |-> animatedSteps,
          checkForAnimation |-> FALSE,
          currentAnimation |-> current,
          thrown |-> FALSE,
          scheduled |-> "none",
          calls |-> 0]

\* scheduleNextAnimation that takes every step not yet animated at once
scheduleBranchesAll(current, sharedPrefix, rollback, animate) ==
    IF Len(rollback) # 0
    THEN scheduleIfAny(current, SubSeq(animatedSteps, 1, sharedPrefix),
                       getReverseAnimation(flatMap(rollback)), "reverse")
    ELSE IF Len(animate) # 0
    THEN scheduleIfAny(current, animatedSteps \o animate,
                       getAnimation(animate[1].events), "forward")
    ELSE [animatedSteps |-> animatedSteps,
          checkForAnimation |-> FALSE,
          currentAnimation |-> current,
          thrown |-> FALSE,
          scheduled |-> "none",
          calls |-> 0]

\* The body of scheduleNextAnimation below the three const declarations.
scheduleBranches(current, sharedPrefix, rollback, animate) ==
    IF Len(rollback) # 0
    THEN scheduleIfAny(current, SubSeq(animatedSteps, 1, sharedPrefix),
                       getReverseAnimation(flatMap(rollback)), "reverse")
    ELSE IF Len(animate) # 0
    THEN scheduleIfAny(current, Append(animatedSteps, animate[1]),
                       getAnimation(animate[1].events), "forward")
    ELSE [animatedSteps |-> animatedSteps,
          checkForAnimation |-> FALSE,
          currentAnimation |-> current,
          thrown |-> FALSE,
          scheduled |-> "none",
          calls |-> 0]

scheduleFrom(current, sharedPrefix) ==
    scheduleBranches(current, sharedPrefix,
                     rollbackSteps(animatedSteps, sharedPrefix),
                     animateSteps(desiredSteps, sharedPrefix))

\* scheduleNextAnimation, entered with `current` as the scheduler's animation:
\* the new animatedSteps, checkForAnimation and currentAnimation, whether
\* scheduleAnimation threw, and what was scheduled.
scheduleNextAnimation(current) ==
    scheduleFrom(current, sharedPrefixLength(Inputs(animatedSteps), Inputs(desiredSteps)))

\* update without the wait for the running animation
shouldScheduleWhileRunning(check, done) == check

\* update without the dirty flag
shouldScheduleWhenClean(check, done) == done

\* update: "if (checkForAnimation && done)"
shouldSchedule(check, done) == check /\ done

-----------------------------------------------------------------------------
(* The state after init() *)

initScene(gameState) ==
    [cards |-> [c \in Cells |-> 0],
     energy |-> gameState.energy,
     energyChange |-> 0,
     energyChangeOpacity |-> 0,
     path |-> gameState.path,
     suggestedPath |-> <<>>]

NoFrame == [tick |-> FALSE, advanced |-> FALSE, finished |-> FALSE, returned |-> FALSE,
            reconciled |-> FALSE, scheduled |-> "none", calls |-> 0, undone |-> 0,
            removed |-> 0, over |-> {}]

NoBurst == [advances |-> 0, undos |-> 0, other |-> FALSE, rejected |-> FALSE,
            framed |-> FALSE, before |-> <<>>, wasPrefix |-> FALSE, reversals |-> 0,
            idle |-> FALSE, forwards |-> 0]

NoCall == [op |-> "none", stack |-> <<>>, steps |-> <<>>, committed |-> initGame]

Init ==
    /\ committedState = initGame
    /\ previewStack = <<>>
    /\ desiredSteps = <<>>
    /\ animatedSteps = <<>>
    /\ checkForAnimation = FALSE
    /\ currentAnimation = NoAnimation
    /\ turboMode = FALSE
    /\ animationSpeed = NormalSpeed
    /\ scene = initScene(initGame)
    /\ hintTimers = 0
    /\ thrown = FALSE
    /\ frame = NoFrame
    /\ burst = NoBurst
    /\ undoRun = 0
    /\ inputCalls = 0
    /\ lastCall = NoCall
    /\ played = 0

-----------------------------------------------------------------------------
(* The operations.  Each writes the program's variables only. *)

\* advance, once next() has returned nextStep, with desiredSteps kept to bound steps
advanceWithin(bound, inputCellIndex, nextStep) ==
        IF nextStep.error
        THEN UNCHANGED <<committedState, previewStack, desiredSteps, animatedSteps,
                         checkForAnimation, currentAnimation, turboMode,
                         animationSpeed, scene, hintTimers, thrown>>
        ELSE /\ Len(desiredSteps) < bound
             /\ previewStack' = Append(previewStack, nextStep.state)
             /\ desiredSteps' = Append(desiredSteps,
                    [input |-> inputCellIndex, events |-> nextStep.events])
             /\ checkForAnimation' = TRUE
             /\ scene' = updateScene(scene, nextStep.state)
             /\ UNCHANGED <<committedState, animatedSteps, currentAnimation, turboMode,
                            animationSpeed, hintTimers, thrown>>

advanceWith(inputCellIndex, nextStep) == advanceWithin(MaxSteps, inputCellIndex, nextStep)

\* advance(inputCellIndex)
advance(inputCellIndex) == advanceWith(inputCellIndex, next(latestState, inputCellIndex))

\* undo() that forgets desiredSteps
undoStackOnly ==
    /\ previewStack' = pop(previewStack)
    /\ checkForAnimation' = TRUE
    /\ scene' = updateScene(scene,
           IF Len(previewStack') # 0 THEN last(previewStack') ELSE committedState)
    /\ UNCHANGED <<committedState, desiredSteps, animatedSteps, currentAnimation, turboMode,
                   animationSpeed, hintTimers, thrown>>

\* undo() that takes the step off animatedSteps as well
undoAnimated ==
    /\ previewStack' = pop(previewStack)
    /\ desiredSteps' = pop(desiredSteps)
    /\ animatedSteps' = pop(animatedSteps)
    /\ checkForAnimation' = TRUE
    /\ scene' = updateScene(scene,
           IF Len(previewStack') # 0 THEN last(previewStack') ELSE committedState)
    /\ UNCHANGED <<committedState, currentAnimation, turboMode,
                   animationSpeed, hintTimers, thrown>>

\* undo()
undo ==
    /\ previewStack' = pop(previewStack)
    /\ desiredSteps' = pop(desiredSteps)
    /\ checkForAnimation' = TRUE
    /\ scene' = updateScene(scene,
           IF Len(previewStack') # 0 THEN last(previewStack') ELSE committedState)
    /\ UNCHANGED <<committedState, animatedSteps, currentAnimation, turboMode,
                   animationSpeed, hintTimers, thrown>>

\* commit()
commit ==
    IF Len(previewStack) = 0
    THEN UNCHANGED <<committedState, previewStack, desiredSteps, animatedSteps,
                     checkForAnimation, currentAnimation, turboMode,
                     animationSpeed, scene, hintTimers, thrown>>
    ELSE /\ StartEnergy - last(previewStack).energy <= MaxSpent
         /\ committedState' = endTurn(last(previewStack))
         /\ previewStack' = <<>>
         /\ scene' = updateScene(scene, committedState')
         /\ UNCHANGED <<desiredSteps, animatedSteps, checkForAnimation, currentAnimation,
                        turboMode, animationSpeed, hintTimers, thrown>>

\* setTurbo(newState)
setTurbo(newState) ==
    /\ turboMode' = newState
    /\ animationSpeed' = IF newState THEN TurboSpeed ELSE NormalSpeed
    /\ UNCHANGED <<committedState, previewStack, desiredSteps, animatedSteps,
                   checkForAnimation, currentAnimation, scene, hintTimers, thrown>>

\* showHint() that searches from the previewed state
showHintPreview ==
    LET suggestedPath == enumerateAll(latestState)
    IN  IF suggestedPath # <<>>
        THEN /\ hintTimers < MaxTimers
             /\ scene' = [scene EXCEPT !.suggestedPath = suggestedPath]
             /\ hintTimers' = hintTimers + 1
             /\ UNCHANGED <<committedState, previewStack, desiredSteps, animatedSteps,
                            checkForAnimation, currentAnimation, turboMode,
                            animationSpeed, thrown>>
        ELSE UNCHANGED <<committedState, previewStack, desiredSteps, animatedSteps,
                         checkForAnimation, currentAnimation, turboMode,
                         animationSpeed, scene, hintTimers, thrown>>

\* showHint()
showHint ==
    LET suggestedPath == suggestions[committedState.energy]
    IN  IF suggestedPath # <<>>
        THEN /\ hintTimers < MaxTimers
             /\ scene' = [scene EXCEPT !.suggestedPath = suggestedPath]
             /\ hintTimers' = hintTimers + 1
             /\ UNCHANGED <<committedState, previewStack, desiredSteps, animatedSteps,
                            checkForAnimation, currentAnimation, turboMode,
                            animationSpeed, thrown>>
        ELSE UNCHANGED <<committedState, previewStack, desiredSteps, animatedSteps,
                         checkForAnimation, currentAnimation, turboMode,
                         animationSpeed, scene, hintTimers, thrown>>

\* The callback showHint hands to setTimeout.  Every timer runs for the same
\* 1500 ms, so the pending timers fire in the order of their calls and the
\* timer of the latest call is pending exactly while hintTimers is above zero.
hintTimeout ==
    /\ hintTimers > 0
    /\ scene' = [scene EXCEPT !.suggestedPath = <<>>]
    /\ hintTimers' = hintTimers - 1
    /\ UNCHANGED <<committedState, previewStack, desiredSteps, animatedSteps,
                   checkForAnimation, currentAnimation, turboMode, animationSpeed,
                   thrown>>

\* Timestamps reach an animation only as differences between two frames and in
\* the test !prevTimestamp, so after a frame at a timestamp above zero every
\* stored timestamp is moved back by the frame's delta: the previous frame is
\* always at Epoch.
rebase(anim, delta) ==
    IF anim = NoAnimation THEN anim
    ELSE [anim EXCEPT !.anims = [i \in 1..Len(anim.anims) |->
             IF anim.anims[i].prevSet
             THEN [anim.anims[i] EXCEPT !.prevTimestamp = @ - delta]
             ELSE anim.anims[i]]]

\* update when the dirty flag is clear or an animation is still running
noSchedule(current) ==
    [animatedSteps |-> animatedSteps,
     checkForAnimation |-> checkForAnimation,
     currentAnimation |-> current,
     thrown |-> FALSE,
     scheduled |-> "none",
     calls |-> 0]

\* update, once updateAnimations has returned ran.done
afterAnimations(ran) ==
    [done |-> ran.done,
     scene |-> ran.scene,
     reconcile |-> shouldSchedule(checkForAnimation, ran.done),
     sched |-> IF shouldSchedule(checkForAnimation, ran.done)
               THEN scheduleNextAnimation(ran.currentAnimation)
               ELSE noSchedule(ran.currentAnimation)]

\* What update(timestamp) computes: updateAnimations, then scheduleNextAnimation
\* if the dirty flag is set and no animation is running.
\* updateAnimations is called once: its result is a value, bound before it is used.
updateResult(timestamp) ==
    CHOOSE r \in {afterAnimations(ran) : ran \in {updateAnimations(timestamp)}} : TRUE

updateTo(r, delta) ==
    /\ ~thrown
    /\ scene' = r.scene
    /\ animatedSteps' = r.sched.animatedSteps
    /\ checkForAnimation' = r.sched.checkForAnimation
    /\ currentAnimation' = rebase(r.sched.currentAnimation, delta)
    /\ thrown' = r.sched.thrown
    /\ UNCHANGED <<committedState, previewStack, desiredSteps, turboMode,
                   animationSpeed, hintTimers>>

\* update(timestamp), for the frame that comes delta after the previous one.
\* An error thrown by scheduleAnimation leaves update before it asks for the
\* next frame.
update(delta) == \E r \in {updateResult(Epoch + delta)} : updateTo(r, delta)

history == <<frame, burst, undoRun, inputCalls, lastCall, played>>

observed == <<frame, burst, undoRun, lastCall>>

Next ==
    \/ \E c \in InputCells : advance(c) /\ UNCHANGED history
    \/ undo /\ UNCHANGED history
    \/ commit /\ UNCHANGED history
    \/ \E b \in BOOLEAN : setTurbo(b) /\ UNCHANGED history
    \/ showHint /\ UNCHANGED history
    \/ hintTimeout /\ UNCHANGED history
    \/ \E d \in FrameDeltas : update(d) /\ UNCHANGED history

Spec == Init /\ [][Next]_vars

-----------------------------------------------------------------------------
(* History of the calls, kept beside the program's state *)

IsPrefix(s, t) == Len(s) <= Len(t) /\ SubSeq(t, 1, Len(s)) = s

\* The burst an input call adds to: a new one after a frame.
CurrentBurst ==
    IF burst.framed \/ burst = NoBurst
    THEN [NoBurst EXCEPT !.before = Inputs(desiredSteps),
                         !.wasPrefix = IsPrefix(Inputs(animatedSteps), Inputs(desiredSteps)),
                         !.idle = /\ currentAnimation = NoAnimation
                                  /\ ~checkForAnimation
                                  /\ Inputs(animatedSteps) = Inputs(desiredSteps)
                                  /\ getCurrentPath = <<>>]
    ELSE burst

\* A burst that is not some advances followed by undos of only those steps.
Broken(b) == [NoBurst EXCEPT !.other = TRUE, !.rejected = b.rejected]

\* The burst was N >= 1 valid advances followed by N undos.
Collapsed(b) == ~b.other /\ b.advances >= 1 /\ b.undos = b.advances

\* The burst was one valid advance made in an idle, converged state with an
\* empty path.
Single(b) == ~b.other /\ b.idle /\ b.advances = 1 /\ b.undos = 0

observeAdvance(inputCellIndex) ==
    IF next(latestState, inputCellIndex).error
    THEN /\ burst' = [CurrentBurst EXCEPT !.rejected = TRUE]
         /\ lastCall' = NoCall
         /\ UNCHANGED <<frame, undoRun>>
    ELSE /\ burst' = IF CurrentBurst.undos > 0 \/ CurrentBurst.other
                     THEN Broken(CurrentBurst)
                     ELSE [CurrentBurst EXCEPT !.advances = @ + 1]
         /\ undoRun' = 0
         /\ frame' = NoFrame
         /\ lastCall' = [op |-> "advance", stack |-> previewStack,
                         steps |-> desiredSteps, committed |-> committedState]

observeUndo ==
    /\ burst' = IF CurrentBurst.other \/ CurrentBurst.undos >= CurrentBurst.advances
                THEN Broken(CurrentBurst)
                ELSE [CurrentBurst EXCEPT !.undos = @ + 1]
    /\ undoRun' = undoRun + (Len(desiredSteps) - Len(desiredSteps'))
    /\ frame' = NoFrame
    /\ lastCall' = IF lastCall.op = "advance" THEN [lastCall EXCEPT !.op = "undo"] ELSE NoCall

observeCommit ==
    IF Len(previewStack) = 0 THEN UNCHANGED observed
    ELSE /\ burst' = Broken(CurrentBurst)
         /\ undoRun' = 0
         /\ frame' = NoFrame
         /\ lastCall' = NoCall

observeResult(r) ==
    /\ frame' = [tick |-> TRUE,
                 advanced |-> currentAnimation # NoAnimation,
                 finished |-> currentAnimation # NoAnimation /\ r.done,
                 returned |-> r.done,
                 reconciled |-> r.reconcile,
                 scheduled |-> r.sched.scheduled,
                 calls |-> r.sched.calls,
                 undone |-> IF r.reconcile THEN undoRun ELSE 0,
                 removed |-> IF Len(r.sched.animatedSteps) < Len(animatedSteps)
                             THEN Len(animatedSteps) - Len(r.sched.animatedSteps)
                             ELSE 0,
                 over |-> {}]
    /\ burst' = IF Collapsed(burst) \/ Single(burst)
                THEN [burst EXCEPT !.framed = TRUE, !.rejected = FALSE,
                          !.reversals = IF r.sched.scheduled = "reverse" /\ @ < 2
                                        THEN @ + 1 ELSE @,
                          !.forwards = IF Single(burst) /\ r.sched.scheduled = "forward" /\ @ < 2
                                       THEN @ + 1 ELSE @]
                ELSE NoBurst
    /\ undoRun' = IF r.reconcile THEN 0 ELSE undoRun
    /\ lastCall' = lastCall

observeUpdate(delta) == observeResult(updateResult(Epoch + delta))

\* The program with the history kept.
NextObserved ==
    \/ \E c \in InputCells : advance(c) /\ observeAdvance(c) /\ UNCHANGED <<inputCalls, played>>
    \/ undo /\ observeUndo /\ UNCHANGED <<inputCalls, played>>
    \/ commit /\ observeCommit /\ UNCHANGED <<inputCalls, played>>
    \/ \E b \in BOOLEAN : setTurbo(b) /\ UNCHANGED history
    \/ \E d \in FrameDeltas : update(d) /\ observeUpdate(d) /\ UNCHANGED <<inputCalls, played>>

SpecObserved == Init /\ [][NextObserved]_vars


-----------------------------------------------------------------------------
(* Input calls and frames under the scheduling of requestAnimationFrame: a  *)
(* frame is always delivered while the loop is alive, and input stops after *)
(* finitely many calls.                                                     *)

ObservedTick == \E d \in FrameDeltas : update(d) /\ observeUpdate(d)

\* One more input call, while input lasts.
countInput ==
    /\ inputCalls < MaxInputs
    /\ inputCalls' = inputCalls + 1
    /\ UNCHANGED <<observed, played>>

TickStep == \E d \in FrameDeltas : update(d) /\ UNCHANGED history

NextLive ==
    \/ \E c \in InputCells : advance(c) /\ countInput
    \/ undo /\ countInput
    \/ \E b \in BOOLEAN : setTurbo(b) /\ UNCHANGED history
    \/ \E d \in FrameDeltas : update(d) /\ UNCHANGED history

LiveSpec == Init /\ [][NextLive]_vars /\ WF_vars(TickStep)

-----------------------------------------------------------------------------
(* The scheduler of anim.ts called directly, as its exports allow: any       *)
(* animation main.ts builds may be passed at any time.                       *)

\* Shorter and longer times between two calls of updateAnimations.
CallDeltas == {100, 800}

\* The events of a first step onto cell c
stepEvents(c) == next(initGame, c).events

AnimationInputs ==
    {getAnimation(stepEvents(c)) : c \in InputCells}
        \cup {getReverseAnimation(stepEvents(c)) : c \in InputCells}

\* The frame time a call of updateAnimations adds for the animation it leaves
\* active: the time since the previous call at the speed in force, and none at
\* the animation's first call.
playedAfter(left, delta) ==
    IF left = NoAnimation THEN 0
    ELSE IF \E i \in 1..Len(currentAnimation.anims) : currentAnimation.anims[i].prevSet
    THEN played + delta * animationSpeed
    ELSE 0

callScheduleAnimation(anim) ==
    /\ currentAnimation' = scheduleAnimation(currentAnimation, anim).currentAnimation
    /\ thrown' = scheduleAnimation(currentAnimation, anim).thrown
    /\ frame' = NoFrame
    /\ played' = IF currentAnimation # NoAnimation THEN played ELSE 0
    /\ UNCHANGED <<committedState, previewStack, desiredSteps, animatedSteps,
                   checkForAnimation, turboMode, animationSpeed, scene, hintTimers,
                   burst, undoRun, inputCalls, lastCall>>

\* The children of the active animation that return true when it is called at
\* this timestamp: of a parallel animation any child, of a sequence its head.
reported(anim, timestamp) ==
    IF anim = NoAnimation THEN {}
    ELSE {i \in 1..Len(anim.anims) :
             /\ anim.kind = "sequence" => i = anim.current + 1
             /\ animationUpdater(anim.anims[i], timestamp, scene).done}

callUpdateAnimations(delta) ==
    \E r \in {updateAnimations(Epoch + delta)} :
        /\ currentAnimation' = rebase(r.currentAnimation, delta)
        /\ scene' = r.scene
        /\ thrown' = FALSE
        /\ frame' = [NoFrame EXCEPT !.tick = TRUE,
                                    !.advanced = currentAnimation # NoAnimation,
                                    !.finished = currentAnimation # NoAnimation /\ r.done,
                                    !.returned = r.done,
                                    !.over = reported(currentAnimation, Epoch + delta)]
        /\ played' = playedAfter(r.currentAnimation, delta)
        /\ UNCHANGED <<committedState, previewStack, desiredSteps, animatedSteps,
                       checkForAnimation, turboMode, animationSpeed, hintTimers,
                       burst, undoRun, inputCalls, lastCall>>

NextAnim ==
    \/ \E anim \in AnimationInputs : callScheduleAnimation(anim)
    \/ \E d \in CallDeltas : callUpdateAnimations(d)
    \/ \E b \in BOOLEAN : setTurbo(b) /\ UNCHANGED history

SpecAnim == Init /\ [][NextAnim]_vars

-----------------------------------------------------------------------------
(* The path selection alone: advance on any of the nine cells, undo and     *)
(* commit, with no frame in between.                                         *)

MaxPath == 5

NextGame ==
    \/ \E c \in Cells : advanceWithin(MaxPath, c, next(latestState, c)) /\ UNCHANGED history
    \/ undo /\ UNCHANGED history
    \/ commit /\ UNCHANGED history

SpecGame == Init /\ [][NextGame]_vars

-----------------------------------------------------------------------------
(* animateSequence, which main.ts never calls, scheduled and called through *)
(* the exports of anim.ts.                                                   *)

SequenceInputs ==
    {animateSequence(<<>>),
     animateSequence(<<animateHighlight(1, FALSE)>>),
     animateSequence(<<animateHighlight(2, FALSE), animateEnergyChange(-1)>>),
     animateSequence(<<animateEnergyChange(1), animateHighlight(2, TRUE)>>)}

NextSequence ==
    \/ \E anim \in SequenceInputs : callScheduleAnimation(anim)
    \/ \E d \in CallDeltas : callUpdateAnimations(d)
    \/ \E b \in BOOLEAN : setTurbo(b) /\ UNCHANGED history

SpecSequence == Init /\ [][NextSequence]_vars

-----------------------------------------------------------------------------
(* The animations of one step called at short intervals, so that an         *)
(* animation is still running after calls made at either speed.             *)

PaceDeltas == {50, 100}

\* The forward and the reverse animation of a step onto cell 2 (cost 1)
PaceInputs == {getAnimation(stepEvents(2)), getReverseAnimation(stepEvents(2))}

NextPace ==
    \/ \E anim \in PaceInputs : callScheduleAnimation(anim)
    \/ \E d \in PaceDeltas : callUpdateAnimations(d)
    \/ \E b \in BOOLEAN : setTurbo(b) /\ UNCHANGED history

SpecPace == Init /\ [][NextPace]_vars

-----------------------------------------------------------------------------
(* The reconciliation core on any two logs.  commit() leaves both logs in    *)
(* place, so over several turns they come to hold any sequences of cells.    *)

\* The step advance() logs for a first step onto cell c
stepOf(c) == [input |-> c, events |-> stepEvents(c)]

\* The logs of at most MaxSteps steps
StepLogs == UNION {[1..n -> {stepOf(c) : c \in InputCells}] : n \in 0..MaxSteps}

InitCore ==
    /\ committedState = initGame
    /\ previewStack = <<>>
    /\ desiredSteps \in StepLogs
    /\ animatedSteps \in StepLogs
    /\ checkForAnimation = TRUE
    /\ currentAnimation = NoAnimation
    /\ turboMode = FALSE
    /\ animationSpeed = NormalSpeed
    /\ scene = initScene(initGame)
    /\ hintTimers = 0
    /\ thrown = FALSE
    /\ frame = NoFrame
    /\ burst = NoBurst
    /\ undoRun = 0
    /\ inputCalls = 0
    /\ lastCall = NoCall
    /\ played = 0

NextCore == \E d \in FrameDeltas : update(d) /\ observeUpdate(d) /\ UNCHANGED <<inputCalls, played>>

SpecCore == InitCore /\ [][NextCore]_vars

-----------------------------------------------------------------------------
(* The reconciliation core on logs of any AnimationStep values: a step's     *)
(* events may be any list of game events, the empty one included.            *)

\* Event lists a step may carry: none, the ones next() makes, and energy
\* losses alone.
eventLists(c) ==
    {<<>>, <<PathSelection(c)>>, <<PathSelection(c), EnergyLoss(1)>>,
     <<EnergyLoss(2)>>, <<EnergyLoss(0)>>}

\* Cells of the steps of those logs
LogCells == {0, 1}

AnimationSteps ==
    UNION {{[input |-> c, events |-> events] : events \in eventLists(c)} : c \in LogCells}

AnimationStepLogs == UNION {[1..n -> AnimationSteps] : n \in 0..MaxSteps}

\* The two logs come to hold any such values, once, before the frames that
\* reconcile them; the dirty flag is set as advance() and undo() set it.
loadLogs(animated, desired) ==
    /\ inputCalls = 0
    /\ inputCalls' = 1
    /\ animatedSteps' = animated
    /\ desiredSteps' = desired
    /\ checkForAnimation' = TRUE
    /\ frame' = NoFrame
    /\ UNCHANGED <<committedState, previewStack, currentAnimation, turboMode,
                   animationSpeed, scene, hintTimers, thrown, burst, undoRun,
                   lastCall, played>>

\* One frame after the other, as requestAnimationFrame delivers them.
FrameStep ==
    \E d \in FrameDeltas : \E r \in {updateResult(Epoch + d)} :
        updateTo(r, d) /\ observeResult(r) /\ UNCHANGED <<inputCalls, played>>

NextLogs ==
    \/ /\ inputCalls = 0
       /\ \E animated \in AnimationStepLogs, desired \in AnimationStepLogs :
             loadLogs(animated, desired)
    \/ FrameStep

SpecLogs == Init /\ [][NextLogs]_vars /\ WF_vars(FrameStep)

-----------------------------------------------------------------------------
(* Properties *)

\* The scheduler is idle, the dirty flag is clear and the two logs agree.
Converged ==
    /\ currentAnimation = NoAnimation
    /\ ~checkForAnimation
    /\ Inputs(animatedSteps) = Inputs(desiredSteps)

\* An animation as scheduleAnimation stored it: no child has been called yet.
Fresh(anim) ==
    /\ anim # NoAnimation
    /\ \A i \in 1..Len(anim.anims) : ~anim.anims[i].prevSet /\ anim.anims[i].elapsed = 0

\* C1: under every interleaving of advance, undo, commit, showHint, setTurbo
\* and update, the scheduler holds no animation or one parallel animation, and
\* scheduleAnimation is never called while one is active: it never throws.
C1_SingleAnimation ==
    /\ ~thrown
    /\ \/ currentAnimation = NoAnimation
       \/ currentAnimation.kind = "parallel" /\ Len(currentAnimation.anims) >= 1

\* An animation is running while the two logs differ and the dirty flag is set.
C1_Witness ==
    /\ currentAnimation # NoAnimation
    /\ checkForAnimation
    /\ Inputs(animatedSteps) # Inputs(desiredSteps)

\* C2: after any finite sequence of advance and undo calls interleaved with
\* frames, with frames still arriving, the program reaches a state, and stays
\* in it, where the scheduler is idle, the dirty flag is clear and
\* animatedSteps has the input sequence of desiredSteps.
C2_Convergence == <>[]Converged

\* Two steps were animated one after the other and the logs have caught up.
C2_Witness == Converged /\ Len(animatedSteps) >= 2

\* C3: commit() with a non-empty preview stack leaves animatedSteps and
\* desiredSteps empty and the scheduler idle.
C3_CommitClears ==
    [][(commit /\ Len(previewStack) # 0) =>
          /\ animatedSteps' = <<>>
          /\ desiredSteps' = <<>>
          /\ currentAnimation' = NoAnimation]_vars

\* C4: the preview stack and desiredSteps have equal length in every state.
C4_EqualLength == Len(previewStack) = Len(desiredSteps)

\* advance(cell) is called with a cell on the path, or not adjacent to its last cell
Rejects(inputCellIndex) ==
    \/ inputCellIndex \in Range(getCurrentPath)
    \/ /\ getCurrentPath # <<>>
       /\ inputCellIndex \notin Range(pathAdjacentIndexes[last(getCurrentPath)])

\* C5: advance(cell) with a cell already on the current path, or not adjacent
\* to its last cell, does not throw and leaves the preview stack, desiredSteps,
\* animatedSteps, the dirty flag, the scene and the scheduler as they were.
C5_RejectedAdvance ==
    [][\A c \in InputCells : (advance(c) /\ observeAdvance(c) /\ Rejects(c)) =>
          /\ burst'.rejected
          /\ UNCHANGED <<previewStack, desiredSteps, animatedSteps, checkForAnimation,
                         scene, currentAnimation, thrown, committedState>>]_vars

\* An advance was rejected while steps were previewed and an animation was running.
C5_Witness == burst.rejected /\ previewStack # <<>> /\ currentAnimation # NoAnimation

\* C6: undo() with an empty preview stack changes neither the preview stack,
\* desiredSteps, animatedSteps, the committed state nor the scene.
C6_UndoOnEmpty ==
    [][(undo /\ previewStack = <<>>) =>
          UNCHANGED <<previewStack, desiredSteps, animatedSteps, committedState, scene>>]_vars

\* C7 as stated: after N >= 1 advances and N undos with no frame between them,
\* the frames that follow, up to convergence, schedule exactly one reverse animation.
C7_ExactlyOneReverse ==
    (Collapsed(burst) /\ burst.framed /\ Converged) => burst.reversals = 1

\* C7, amended: after N >= 1 advances and N undos with no frame between them,
\* desiredSteps has its earlier input sequence again and the frames that follow
\* schedule no reverse animation for those N steps: at most one reverse
\* animation in all, and none when animatedSteps was a prefix of desiredSteps
\* before the first advance.
C7_Collapse ==
    Collapsed(burst) =>
        /\ Inputs(desiredSteps) = burst.before
        /\ burst.reversals <= 1
        /\ burst.wasPrefix => burst.reversals = 0

\* Two advances were undone before any frame, and the frames after them converged.
C7_Witness == Collapsed(burst) /\ burst.advances >= 2 /\ burst.framed /\ Converged

\* The sum of the costs of the cards of steps
RECURSIVE totalCost(_)
totalCost(steps) ==
    IF steps = <<>> THEN 0 ELSE cost(Head(steps).input) + totalCost(Tail(steps))

\* anim is one parallel animation that un-highlights the cards of steps, in
\* order, and shows the energy they cost, if any, in a single popup.
ReverseOf(anim, steps) ==
    /\ Fresh(anim)
    /\ Len(anim.anims) = Len(steps) + (IF totalCost(steps) # 0 THEN 1 ELSE 0)
    /\ \A i \in 1..Len(steps) :
          /\ anim.anims[i].kind = "highlight"
          /\ anim.anims[i].reverse
          /\ anim.anims[i].card = steps[i].input
    /\ totalCost(steps) # 0 =>
          /\ anim.anims[Len(steps) + 1].kind = "energy"
          /\ anim.anims[Len(steps) + 1].amount = totalCost(steps)

\* C8: when j >= 2 animated steps were popped off desiredSteps by undo calls
\* since reconciliation last ran, the next reconciliation run takes all j off
\* animatedSteps at once and schedules one reverse animation made from the
\* events of all j steps; the frame after it schedules no further reverse
\* animation.
C8_MergedRollback ==
    [][ObservedTick =>
          /\ (/\ frame'.reconciled
              /\ undoRun >= 2
              /\ Len(animatedSteps) = Len(desiredSteps) + undoRun
              /\ IsPrefix(Inputs(desiredSteps), Inputs(animatedSteps)))
             => /\ animatedSteps' = SubSeq(animatedSteps, 1, Len(desiredSteps))
                /\ frame'.scheduled = "reverse"
                /\ frame'.calls = 1
                /\ ReverseOf(currentAnimation', slice(animatedSteps, Len(desiredSteps)))
          /\ (frame.tick /\ frame.scheduled = "reverse") => frame'.scheduled # "reverse"]_vars

\* A reconciliation run that followed two undo calls took two steps off animatedSteps.
C8_Witness ==
    /\ frame.reconciled
    /\ frame.undone >= 2
    /\ frame.removed >= 2
    /\ frame.scheduled = "reverse"

\* C9: steps advanced and undone again between two consecutive frames leave
\* desiredSteps with the input sequence it had, never enter animatedSteps and
\* cause no animation to be scheduled.
C9_ShortCircuit ==
    [][(ObservedTick /\ Collapsed(burst) /\ ~burst.framed) =>
          /\ Inputs(desiredSteps) = burst.before
          /\ \/ IsPrefix(animatedSteps', animatedSteps)
             \/ IsPrefix(Inputs(animatedSteps'), burst.before)
          /\ Inputs(animatedSteps) = burst.before =>
                /\ animatedSteps' = animatedSteps
                /\ frame'.scheduled = "none"
                /\ currentAnimation' = NoAnimation \/ ~Fresh(currentAnimation')]_vars

\* The frame after an advance and its undo ran reconciliation and scheduled nothing.
C9_Witness ==
    /\ Collapsed(burst)
    /\ burst.framed
    /\ frame.reconciled
    /\ frame.scheduled = "none"
    /\ burst.reversals = 0

\* C10 as stated: every frame either advances the current animation or runs
\* reconciliation, never both and never neither.
C10_ExactlyOne == frame.tick => (frame.advanced # frame.reconciled)

\* C10, amended: a frame first advances the current animation, if any, and
\* runs reconciliation exactly if the dirty flag is set and no animation is
\* active after that, so also in the frame that finishes one; an animation
\* scheduled in a frame is not called in that frame, and a frame whose
\* animation keeps running changes neither animatedSteps nor the dirty flag.
C10_TickOrder ==
    [][ObservedTick =>
          /\ frame'.finished = (/\ currentAnimation # NoAnimation
                                /\ currentAnimation' = NoAnimation \/ Fresh(currentAnimation'))
          /\ frame'.reconciled =
                (checkForAnimation /\ (currentAnimation = NoAnimation \/ frame'.finished))
          /\ frame'.scheduled # "none" => frame'.reconciled /\ Fresh(currentAnimation')
          /\ ~frame'.reconciled =>
                /\ animatedSteps' = animatedSteps
                /\ checkForAnimation' = checkForAnimation
          /\ (frame'.advanced /\ ~frame'.finished) =>
                /\ currentAnimation' # NoAnimation
                /\ ~Fresh(currentAnimation')]_vars

\* One frame finished an animation and scheduled the next one.
C10_Witness == frame.finished /\ frame.reconciled /\ frame.scheduled # "none"

\* The elapsed time of primitive a after a call that comes delta after the
\* previous one: its first call starts the clock.
nextElapsed(a, delta) == a.elapsed + (IF a.prevSet THEN delta * animationSpeed ELSE 0)

\* Primitive a is over at that call.
childDone(a, delta) ==
    /\ nextElapsed(a, delta) # 0
    /\ IF a.kind = "highlight"
       THEN nextElapsed(a, delta) >= HighlightDuration
       ELSE turboMode \/ nextElapsed(a, delta) >= duration

\* C11: updateAnimations calls the active animation once, so every primitive
\* of it once; it clears the animation exactly if all of them are over, and
\* returns true exactly if no animation is active after the call.  With no
\* active animation it returns true and touches nothing.
C11_UpdateAnimations ==
    [][\A d \in CallDeltas : callUpdateAnimations(d) =>
          /\ frame'.returned = (currentAnimation' = NoAnimation)
          /\ currentAnimation = NoAnimation =>
                /\ frame'.returned
                /\ scene' = scene
          /\ currentAnimation # NoAnimation =>
                /\ (currentAnimation' = NoAnimation) =
                      (\A i \in 1..Len(currentAnimation.anims) :
                            childDone(currentAnimation.anims[i], d))
                /\ currentAnimation' # NoAnimation =>
                      /\ Len(currentAnimation'.anims) = Len(currentAnimation.anims)
                      /\ \A i \in 1..Len(currentAnimation.anims) :
                            /\ currentAnimation'.anims[i].prevSet
                            /\ currentAnimation'.anims[i].elapsed =
                                  nextElapsed(currentAnimation.anims[i], d)]_vars

\* A call of updateAnimations found the active animation over and cleared it.
C11_Witness == frame.tick /\ frame.advanced /\ frame.returned /\ currentAnimation = NoAnimation

\* C12: scheduleAnimation called while an animation is active throws and
\* leaves that animation as it was; called while idle it stores the animation
\* without calling it.
C12_ScheduleAnimation ==
    [][\A anim \in AnimationInputs : callScheduleAnimation(anim) =>
          /\ scene' = scene
          /\ currentAnimation # NoAnimation =>
                /\ thrown'
                /\ currentAnimation' = currentAnimation
          /\ currentAnimation = NoAnimation =>
                /\ ~thrown'
                /\ currentAnimation' = anim
                /\ Fresh(currentAnimation')]_vars

\* scheduleAnimation threw while an animation was part way through.
C12_Witness == thrown /\ currentAnimation # NoAnimation /\ ~Fresh(currentAnimation)

\* C14 as stated: with turbo on, every call of an energy-change animation
\* reports done, whatever its elapsed time.
C14_TurboDoneAlways ==
    (turboMode /\ currentAnimation # NoAnimation) =>
        \A i \in 1..Len(currentAnimation.anims) : \A d \in CallDeltas :
            currentAnimation.anims[i].kind = "energy" =>
                animationUpdater(currentAnimation.anims[i], Epoch + d, scene).done

\* C14, amended: with turbo on, every call of an energy-change animation after
\* its first one reports done, whatever its elapsed time; the first call only
\* runs init and reports not done.
C14_TurboDone ==
    (turboMode /\ currentAnimation # NoAnimation) =>
        \A i \in 1..Len(currentAnimation.anims) : \A d \in CallDeltas :
            currentAnimation.anims[i].kind = "energy" =>
                animationUpdater(currentAnimation.anims[i], Epoch + d, scene).done
                    = currentAnimation.anims[i].prevSet

\* Turbo was switched on while an energy-change animation was part way
\* through, and the next call leaves it short of its duration.
C14_Witness ==
    /\ turboMode
    /\ currentAnimation # NoAnimation
    /\ \E i \in 1..Len(currentAnimation.anims) :
          /\ currentAnimation.anims[i].kind = "energy"
          /\ currentAnimation.anims[i].prevSet
          /\ currentAnimation.anims[i].elapsed > 0
          /\ currentAnimation.anims[i].elapsed + 100 * TurboSpeed < duration

\* anim is one parallel animation that highlights cell c and shows its cost.
ForwardOf(anim, c) ==
    /\ Fresh(anim)
    /\ Len(anim.anims) = 2
    /\ anim.anims[1].kind = "highlight"
    /\ anim.anims[1].card = c
    /\ ~anim.anims[1].reverse
    /\ anim.anims[2].kind = "energy"
    /\ anim.anims[2].amount = -cost(c)

\* C13: after one valid advance(c), on a cell of cost n > 0, made in an idle,
\* converged state with an empty path, the energy is n lower, the frames that
\* follow schedule exactly one forward animation, the highlight of c in
\* parallel with its energy change, and no reverse one, and once it is over
\* animatedSteps and desiredSteps both are the one step with input c.
C13_FirstAdvance ==
    (Single(burst) /\ cost(last(desiredSteps).input) > 0) =>
        /\ latestState.energy = committedState.energy - cost(last(desiredSteps).input)
        /\ burst.forwards <= 1
        /\ burst.reversals = 0
        /\ (frame.tick /\ frame.scheduled = "forward") =>
              ForwardOf(currentAnimation, last(desiredSteps).input)
        /\ (burst.framed /\ Converged) =>
              /\ burst.forwards = 1
              /\ Inputs(animatedSteps) = <<last(desiredSteps).input>>
              /\ Inputs(desiredSteps) = <<last(desiredSteps).input>>

\* C17: a successful advance(c) followed by undo() brings back the preview
\* stack, desiredSteps and with them the latest state (path and energy) of
\* before the advance, and neither call writes the committed state.
C17_RoundTrip ==
    /\ lastCall.op = "advance" => committedState = lastCall.committed
    /\ lastCall.op = "undo" =>
          /\ previewStack = lastCall.stack
          /\ desiredSteps = lastCall.steps
          /\ committedState = lastCall.committed
          /\ latestState = IF lastCall.stack # <<>> THEN last(lastCall.stack)
                           ELSE lastCall.committed

\* A second step was advanced and undone again.
C17_Witness == lastCall.op = "undo" /\ Len(lastCall.stack) >= 1

\* C18: scene.energy and scene.path are the energy and path of the latest
\* state, the top of the preview stack or else the committed state, after
\* every call, an animation playing or not.
C18_SceneMirrors ==
    /\ scene.energy = latestState.energy
    /\ scene.path = latestState.path

\* A step was advanced while the animation of the step before it was playing.
C18_Witness ==
    /\ currentAnimation # NoAnimation
    /\ ~Fresh(currentAnimation)
    /\ Len(scene.path) = 2
    /\ Len(animatedSteps) = 1

\* C15: a showHint call that finds a path puts into the scene the path found
\* from the committed state, whatever is previewed, and writes nothing else:
\* not the preview stack, desiredSteps, animatedSteps, the dirty flag or the
\* scheduler's animation.
C15_HintAdvisory ==
    [][(hintTimers' = hintTimers + 1 /\ showHint) =>
          /\ scene' = [scene EXCEPT !.suggestedPath = suggestions[committedState.energy]]
          /\ UNCHANGED <<previewStack, desiredSteps, animatedSteps, checkForAnimation,
                         currentAnimation, committedState>>]_vars

\* A hint is shown while a step is previewed and its animation is playing.
C15_Witness ==
    /\ hintTimers > 0
    /\ scene.suggestedPath # <<>>
    /\ previewStack # <<>>
    /\ currentAnimation # NoAnimation

\* C16: the suggested path is in the scene while the 1500 ms of the latest
\* showHint call that found one have not run out, and is cleared once they have.
C16_HintDuration ==
    /\ hintTimers > 0 => scene.suggestedPath # <<>>
    /\ hintTimers = 0 => scene.suggestedPath = <<>>

\* C19: sharedPrefixLength(current, desired) is the largest k such that the
\* first k entries of the two sequences are equal: never above the shorter
\* length, 0 when either is empty, and stopping at the first entries that differ.
C19_SharedPrefix ==
    LET current == Inputs(animatedSteps)
        desired == Inputs(desiredSteps)
        k == sharedPrefixLength(current, desired)
    IN  /\ k \in 0..Len(current)
        /\ k <= Len(desired)
        /\ \A i \in 1..k : current[i] = desired[i]
        /\ (k < Len(current) /\ k < Len(desired)) => current[k + 1] # desired[k + 1]
        /\ (current = <<>> \/ desired = <<>>) => k = 0

\* Reconciliation ran on two logs that agreed on the first step and differed
\* on the second.
C19_Witness ==
    /\ frame.reconciled
    /\ frame.removed = 1
    /\ Len(animatedSteps) = 1
    /\ Len(desiredSteps) = 2
    /\ animatedSteps[1].input = desiredSteps[1].input

\* The length of the longest common prefix of s and t
LongestPrefix(s, t) ==
    CHOOSE k \in 0..Len(s) :
        /\ k <= Len(t)
        /\ \A i \in 1..k : s[i] = t[i]
        /\ (k < Len(s) /\ k < Len(t)) => s[k + 1] # t[k + 1]

\* C20: a reconciliation run that finds animatedSteps longer than the shared
\* prefix cuts it to the shared prefix, appends no step of desiredSteps in that
\* run and makes one call of scheduleAnimation at most, for the reverse animation.
C20_RollbackFirst ==
    [][(/\ ObservedTick
        /\ frame'.reconciled
        /\ Len(animatedSteps) >
              LongestPrefix(Inputs(animatedSteps), Inputs(desiredSteps))) =>
          /\ animatedSteps' = SubSeq(animatedSteps, 1,
                 LongestPrefix(Inputs(animatedSteps), Inputs(desiredSteps)))
          /\ frame'.calls <= 1
          /\ frame'.scheduled # "forward"
          /\ ~thrown']_vars

\* Two steps were rolled back in one run while a step of desiredSteps waited.
C20_Witness ==
    /\ frame.reconciled
    /\ frame.removed >= 2
    /\ frame.scheduled = "reverse"
    /\ animatedSteps = <<>>
    /\ desiredSteps # <<>>


\* C21: a reconciliation run that has nothing to roll back and finds
\* desiredSteps longer than the shared prefix appends the first step of
\* desiredSteps that is not animated yet, and no other, and schedules the
\* forward animation of that step alone; no frame makes animatedSteps more
\* than one step longer.
C21_OneStepForward ==
    [][ObservedTick =>
          /\ Len(animatedSteps') <= Len(animatedSteps) + 1
          /\ (/\ frame'.reconciled
              /\ Len(animatedSteps) =
                    LongestPrefix(Inputs(animatedSteps), Inputs(desiredSteps))
              /\ Len(desiredSteps) > Len(animatedSteps))
             => /\ animatedSteps' =
                      Append(animatedSteps, desiredSteps[Len(animatedSteps) + 1])
                /\ frame'.scheduled = "forward"
                /\ frame'.calls = 1
                /\ Fresh(currentAnimation')
                /\ Len(currentAnimation'.anims) =
                      Len(desiredSteps[Len(animatedSteps) + 1].events)
                /\ currentAnimation'.anims[1].kind = "highlight"
                /\ currentAnimation'.anims[1].card =
                      desiredSteps[Len(animatedSteps) + 1].input
                /\ ~currentAnimation'.anims[1].reverse]_vars

\* A run appended the first of two waiting steps and left the second waiting.
C21_Witness ==
    /\ frame.reconciled
    /\ frame.scheduled = "forward"
    /\ frame.removed = 0
    /\ Len(animatedSteps) = 1
    /\ Len(desiredSteps) = 2
    /\ animatedSteps[1] = desiredSteps[1]


\* C22: the dirty flag goes from set to clear only in a frame whose
\* reconciliation run finds both logs no longer than their shared prefix, and
\* that run schedules nothing and leaves animatedSteps alone; so whenever the
\* flag is clear the two logs have the same input sequence.
C22_DirtyFlag ==
    /\ [](~checkForAnimation => Inputs(animatedSteps) = Inputs(desiredSteps))
    /\ [][(checkForAnimation /\ ~checkForAnimation') =>
              /\ ObservedTick
              /\ frame'.reconciled
              /\ Len(animatedSteps) =
                    LongestPrefix(Inputs(animatedSteps), Inputs(desiredSteps))
              /\ Len(desiredSteps) = Len(animatedSteps)
              /\ frame'.scheduled = "none"
              /\ frame'.calls = 0
              /\ animatedSteps' = animatedSteps
              /\ currentAnimation' = NoAnimation]_vars

\* The flag was cleared by the run that followed the animation of a step.
C22_Witness ==
    /\ ~checkForAnimation
    /\ frame.reconciled
    /\ frame.finished
    /\ Len(animatedSteps) >= 1


\* The log a reconciliation run leaves: cut to the shared prefix if it went
\* beyond it, else one step of desiredSteps longer if one waits.
Reconciled(animated, desired) ==
    IF Len(animated) > LongestPrefix(Inputs(animated), Inputs(desired))
    THEN SubSeq(animated, 1, LongestPrefix(Inputs(animated), Inputs(desired)))
    ELSE IF Len(desired) > Len(animated)
    THEN Append(animated, desired[Len(animated) + 1])
    ELSE animated

\* C23: a reconciliation run that has steps to roll back or to animate and
\* gets no animation from them still cuts or lengthens animatedSteps, leaves
\* the dirty flag set and the scheduler idle; the frame after such a run runs
\* reconciliation again; and the logs converge, with or without an animation
\* for every step.
C23_NoAnimationProgress ==
    /\ [][(/\ ObservedTick
            /\ frame'.reconciled
            /\ frame'.calls = 0
            /\ Inputs(animatedSteps) # Inputs(desiredSteps)) =>
              /\ animatedSteps' = Reconciled(animatedSteps, desiredSteps)
              /\ animatedSteps' # animatedSteps
              /\ checkForAnimation'
              /\ currentAnimation' = NoAnimation
              /\ ~thrown']_vars
    /\ [][(/\ ObservedTick
            /\ frame.reconciled
            /\ frame.calls = 0
            /\ checkForAnimation) => frame'.reconciled]_vars
    /\ <>[]Converged

\* A run rolled steps back without an animation and left the flag set.
C23_Witness ==
    /\ frame.reconciled
    /\ frame.calls = 0
    /\ frame.removed >= 1
    /\ checkForAnimation
    /\ currentAnimation = NoAnimation


C25_VisualConsistency ==
    (currentAnimation = NoAnimation /\ ~checkForAnimation) =>
        \A c \in Cells :
            scene.cards[c] = IF includes(getCurrentPath, c) THEN 1000 ELSE 0


\* anim is what the forward derivation makes of events: nothing for no
\* events, else one parallel animation with one primitive per event, in order.
ForwardDerived(anim, events) ==
    IF Len(events) = 0 THEN anim = NoAnimation
    ELSE /\ Fresh(anim)
         /\ anim.kind = "parallel"
         /\ Len(anim.anims) = Len(events)
         /\ \A i \in 1..Len(events) :
               IF events[i].type = "PathSelection"
               THEN /\ anim.anims[i].kind = "highlight"
                    /\ anim.anims[i].card = events[i].selectedIndex
                    /\ ~anim.anims[i].reverse
               ELSE /\ anim.anims[i].kind = "energy"
                    /\ anim.anims[i].amount = 0 - events[i].amount

\* C26: the animation scheduled for a step that reconciliation appends has one
\* highlight-in primitive per PathSelection event, for the cell of the event,
\* and one energy-change primitive with the negated amount per EnergyLoss
\* event, all in one parallel animation; none is scheduled exactly if the step
\* has no events.
C26_ForwardDerivation ==
    [][(/\ ObservedTick
        /\ frame'.reconciled
        /\ Len(animatedSteps') > Len(animatedSteps)) =>
          /\ ForwardDerived(currentAnimation', last(animatedSteps').events)
          /\ (frame'.scheduled = "forward") = (last(animatedSteps').events # <<>>)
          /\ (frame'.scheduled = "none") = (last(animatedSteps').events = <<>>)]_vars

\* A step with a selection and an energy loss of 1 got its forward animation.
C26_Witness ==
    /\ frame.reconciled
    /\ frame.scheduled = "forward"
    /\ Len(currentAnimation.anims) = 2
    /\ currentAnimation.anims[1].kind = "highlight"
    /\ currentAnimation.anims[2].kind = "energy"
    /\ currentAnimation.anims[2].amount = 0 - 1

\* The PathSelection events among the first n events
RECURSIVE selectionsOf(_, _)
selectionsOf(events, n) ==
    IF n = 0 THEN <<>>
    ELSE IF events[n].type = "PathSelection"
    THEN Append(selectionsOf(events, n - 1), events[n])
    ELSE selectionsOf(events, n - 1)

\* The amounts of the EnergyLoss events among the first n events, added up
RECURSIVE lossOf(_, _)
lossOf(events, n) ==
    IF n = 0 THEN 0
    ELSE lossOf(events, n - 1) + (IF events[n].type = "EnergyLoss" THEN events[n].amount ELSE 0)

\* anim is what the reverse derivation makes of events, whose selections and
\* whose summed loss are given: the highlight-outs in order, then at most one
\* energy change.
ReverseDerived(anim, selections, loss) ==
    IF Len(selections) = 0 /\ loss = 0 THEN anim = NoAnimation
    ELSE /\ Fresh(anim)
         /\ anim.kind = "parallel"
         /\ Len(anim.anims) = Len(selections) + (IF loss # 0 THEN 1 ELSE 0)
         /\ \A i \in 1..Len(selections) :
               /\ anim.anims[i].kind = "highlight"
               /\ anim.anims[i].card = selections[i].selectedIndex
               /\ anim.anims[i].reverse
         /\ loss # 0 =>
               /\ anim.anims[Len(anim.anims)].kind = "energy"
               /\ anim.anims[Len(anim.anims)].amount = loss
               /\ loss > 0

\* C27: the animation scheduled for the steps reconciliation rolls back, made
\* from the events of all of them in order, has one highlight-out primitive
\* per PathSelection event and one energy-change primitive with the sum of all
\* EnergyLoss amounts, or none if that sum is 0, all in one parallel animation.
C27_ReverseDerivation ==
    [][(/\ ObservedTick
        /\ frame'.reconciled
        /\ Len(animatedSteps') < Len(animatedSteps)) =>
          LET events == flatMap(slice(animatedSteps, Len(animatedSteps')))
          IN  /\ ReverseDerived(currentAnimation',
                                selectionsOf(events, Len(events)),
                                lossOf(events, Len(events)))
              /\ (frame'.scheduled = "reverse") = (currentAnimation' # NoAnimation)]_vars

\* Two steps with energy losses of 1 and 2 were rolled back in one animation.
C27_Witness ==
    /\ frame.reconciled
    /\ frame.removed = 2
    /\ frame.scheduled = "reverse"
    /\ currentAnimation.anims[Len(currentAnimation.anims)].kind = "energy"
    /\ currentAnimation.anims[Len(currentAnimation.anims)].amount = 3


\* The duration of primitive a
durationOf(a) == IF a.kind = "highlight" THEN HighlightDuration ELSE duration

\* C28 as stated: a call of a primitive returns true exactly if it is the
\* first call at which the elapsed time reaches or exceeds the duration, and
\* false at every other call, also at the calls a parallel animation makes
\* after the primitive is over.
C28_TrueOnce ==
    currentAnimation # NoAnimation =>
        \A i \in 1..Len(currentAnimation.anims) : \A d \in CallDeltas :
            animationUpdater(currentAnimation.anims[i], Epoch + d, scene).done =
                (/\ currentAnimation.anims[i].elapsed
                        < durationOf(currentAnimation.anims[i])
                 /\ nextElapsed(currentAnimation.anims[i], d)
                        >= durationOf(currentAnimation.anims[i]))

\* C28, amended: a call of a primitive returns true exactly if its elapsed
\* time is above zero and has reached or exceeds the duration, at the first
\* such call and at every later one, or if it is an energy change called with
\* turbo on and elapsed time above zero; it returns false at every other call.
C28_TrueFromThreshold ==
    currentAnimation # NoAnimation =>
        \A i \in 1..Len(currentAnimation.anims) : \A d \in CallDeltas :
            animationUpdater(currentAnimation.anims[i], Epoch + d, scene).done =
                (/\ nextElapsed(currentAnimation.anims[i], d) > 0
                 /\ \/ nextElapsed(currentAnimation.anims[i], d)
                          >= durationOf(currentAnimation.anims[i])
                    \/ currentAnimation.anims[i].kind = "energy" /\ turboMode)

\* A highlight is over and is called again beside an energy change that is
\* still running.
C28_Witness ==
    /\ ~turboMode
    /\ currentAnimation # NoAnimation
    /\ \E i, j \in 1..Len(currentAnimation.anims) :
          /\ currentAnimation.anims[i].kind = "highlight"
          /\ currentAnimation.anims[i].elapsed >= HighlightDuration
          /\ currentAnimation.anims[j].kind = "energy"
          /\ currentAnimation.anims[j].elapsed + 100 < duration


\* C29: the elapsed time of every primitive of the active animation is the
\* sum, over the calls made since its first one, of the time since the
\* previous call multiplied by the speed in force at that call, 1 or 4; and
\* setTurbo leaves the elapsed time of a running animation as it is.
C29_ElapsedSum ==
    /\ [](currentAnimation # NoAnimation =>
             \A i \in 1..Len(currentAnimation.anims) :
                 currentAnimation.anims[i].elapsed = played)
    /\ [][(\E b \in BOOLEAN : setTurbo(b)) => currentAnimation' = currentAnimation]_vars

\* A highlight has been called 50 ms after its first call at normal speed and
\* 50 ms later with turbo on.
C29_Witness ==
    /\ turboMode
    /\ currentAnimation # NoAnimation
    /\ played = 50 + 50 * TurboSpeed
    /\ currentAnimation.anims[1].kind = "highlight"
    /\ currentAnimation.anims[1].elapsed = played


\* Steps back in time between two calls: the same timestamp again, and an
\* earlier one.
BackDeltas == {-10, 0}

\* C30: a call of a primitive at a timestamp equal to or lower than the
\* previous call's leaves its elapsed time no lower than it was, and the
\* highlight it animates no further back: no lower for a highlight-in, no
\* higher for a highlight-out.
C30_NonMonotonicSafe ==
    currentAnimation # NoAnimation =>
        \A i \in 1..Len(currentAnimation.anims) : \A d \in BackDeltas :
            currentAnimation.anims[i].prevSet =>
                /\ animationUpdater(currentAnimation.anims[i], Epoch + d, scene).anim.elapsed
                      >= currentAnimation.anims[i].elapsed
                /\ (/\ currentAnimation.anims[i].kind = "highlight"
                    /\ currentAnimation.anims[i].elapsed > 0) =>
                      IF currentAnimation.anims[i].reverse
                      THEN animationUpdater(currentAnimation.anims[i], Epoch + d, scene)
                               .scene.cards[currentAnimation.anims[i].card]
                             <= scene.cards[currentAnimation.anims[i].card]
                      ELSE animationUpdater(currentAnimation.anims[i], Epoch + d, scene)
                               .scene.cards[currentAnimation.anims[i].card]
                             >= scene.cards[currentAnimation.anims[i].card]


\* Timestamps of the ticks of one primitive: a first timestamp of 0 or later,
\* and each tick at the timestamp of the one before or later.
TickTimes == {0, Epoch, 2 * Epoch}

TickSequences ==
    {ts \in UNION {[1..n -> TickTimes] : n \in 1..3} :
        \A i \in 1..(Len(ts) - 1) : ts[i] <= ts[i + 1]}

\* The number of calls of init() over the ticks of primitive a at these timestamps.
RECURSIVE initRuns(_, _, _)
initRuns(a, timestamps, sc) ==
    IF timestamps = <<>> THEN 0
    ELSE (IF animationUpdater(a, Head(timestamps), sc).init THEN 1 ELSE 0)
         + initRuns(animationUpdater(a, Head(timestamps), sc).anim, Tail(timestamps),
                    animationUpdater(a, Head(timestamps), sc).scene)

\* The elapsed time of primitive a after its ticks at these timestamps.
RECURSIVE elapsedAfter(_, _)
elapsedAfter(a, timestamps) ==
    IF timestamps = <<>> THEN a.elapsed
    ELSE elapsedAfter(animationUpdater(a, Head(timestamps), scene).anim, Tail(timestamps))

\* C31: whatever the timestamps of its ticks (a first timestamp of 0 and
\* repeated timestamps included), a primitive that has not been called yet
\* takes its baseline from the first tick only, so its elapsed time after the
\* ticks is the time from the first to the last timestamp at the speed in
\* force, and its init() runs exactly once over the ticks.
C31_InitOnce ==
    currentAnimation # NoAnimation =>
        \A i \in 1..Len(currentAnimation.anims) : \A ts \in TickSequences :
            ~currentAnimation.anims[i].prevSet =>
                /\ initRuns(currentAnimation.anims[i], ts, scene) = 1
                /\ elapsedAfter(currentAnimation.anims[i], ts)
                      = (ts[Len(ts)] - ts[1]) * animationSpeed


\* r is what a call of a parallel animation with children anims, delta after
\* the previous call, returns if it calls every child and is done exactly if
\* every child is.
CallsAll(anims, r, delta) ==
    /\ Len(r.anims) = Len(anims)
    /\ \A i \in 1..Len(anims) :
          /\ r.anims[i].prevSet
          /\ r.anims[i].prevTimestamp = Epoch + delta
          /\ r.anims[i].elapsed = nextElapsed(anims[i], delta)
    /\ r.done = (\A i \in 1..Len(anims) : childDone(anims[i], delta))

\* C32: a call of a parallel animation calls every one of its children, those
\* that were over at an earlier call and those that follow a child that is not
\* over included, and returns true exactly if every child returned true at
\* this call.
C32_ParallelCallsAll ==
    currentAnimation # NoAnimation =>
        \A d \in CallDeltas :
            CallsAll(currentAnimation.anims,
                     parallelUpdate(currentAnimation.anims, Epoch + d, scene), d)

\* A highlight that was over at an earlier call has been called again, with
\* the energy change that follows it and is not over yet.
C32_Witness ==
    /\ ~turboMode
    /\ currentAnimation # NoAnimation
    /\ Len(currentAnimation.anims) = 2
    /\ currentAnimation.anims[1].kind = "highlight"
    /\ currentAnimation.anims[1].elapsed >= HighlightDuration + 2 * 100
    /\ currentAnimation.anims[2].kind = "energy"
    /\ currentAnimation.anims[2].elapsed = currentAnimation.anims[1].elapsed
    /\ currentAnimation.anims[2].elapsed < duration


\* Child i of the active animation was called at the latest call of
\* updateAnimations: its stored timestamp is that call's.
Invoked(anim, i) == anim.anims[i].prevSet /\ anim.anims[i].prevTimestamp = Epoch

\* C33: a call of a sequence calls its head child, anims[current], and no
\* other; it moves on to the next child exactly if the head returned true at
\* this call and never moves back, so a child that has returned true is never
\* called again; and it returns true only when every child, the last one
\* included, has returned true at an earlier call.
C33_SequenceHeadOnly ==
    [][\A d \in CallDeltas :
          (callUpdateAnimations(d) /\ currentAnimation.kind = "sequence") =>
              /\ frame'.returned => currentAnimation.current = Len(currentAnimation.anims)
              /\ currentAnimation' # NoAnimation =>
                    /\ currentAnimation.current < Len(currentAnimation.anims)
                    /\ \A i \in 1..Len(currentAnimation.anims) :
                          Invoked(currentAnimation', i) = (i = currentAnimation.current + 1)
                    /\ currentAnimation'.current =
                          IF childDone(currentAnimation.anims[currentAnimation.current + 1], d)
                          THEN currentAnimation.current + 1
                          ELSE currentAnimation.current]_vars

\* The sequence has moved on from its first child, over at an earlier call,
\* and has called its second child since.
C33_Witness ==
    /\ currentAnimation.kind = "sequence"
    /\ currentAnimation.current = 1
    /\ Len(currentAnimation.anims) = 2
    /\ currentAnimation.anims[1].elapsed >= HighlightDuration
    /\ currentAnimation.anims[2].elapsed > 0
    /\ ~Invoked(currentAnimation, 1)


\* C34: commit() called with a non-empty preview stack makes the committed
\* state the top-of-stack state with its path cleared (the same energy; the
\* board is never written) and empties the preview stack, so getCurrentPath()
\* is empty right after it.
C34_CommitEndsTurn ==
    [][(commit /\ Len(previewStack) # 0) =>
          /\ committedState'.energy = previewStack[Len(previewStack)].energy
          /\ committedState'.path = <<>>
          /\ previewStack' = <<>>
          /\ getCurrentPath' = <<>>]_vars

\* A path that cost energy has been committed.
C34_Witness ==
    /\ previewStack = <<>>
    /\ committedState.path = <<>>
    /\ committedState.energy < StartEnergy
    /\ desiredSteps # <<>>


\* Two different cells of the 3x3 board that touch: at most one column and at
\* most one row apart.
Touching(a, b) ==
    /\ a # b
    /\ (a % 3) - (b % 3) \in {-1, 0, 1}
    /\ (a \div 3) - (b \div 3) \in {-1, 0, 1}

\* C35: the path of the latest logical state holds no cell twice, and every
\* two consecutive cells of it are adjacent on the 3x3 board, horizontally,
\* vertically or diagonally.
C35_ValidPath ==
    /\ \A i, j \in 1..Len(getCurrentPath) : i # j => getCurrentPath[i] # getCurrentPath[j]
    /\ \A i \in 1..(Len(getCurrentPath) - 1) :
          Touching(getCurrentPath[i], getCurrentPath[i + 1])

\* A path of four cells with a diagonal move, selected after a commit.
C35_Witness ==
    /\ Len(getCurrentPath) = 4
    /\ committedState.energy < StartEnergy
    /\ \E i \in 1..3 : getCurrentPath[i + 1] - getCurrentPath[i] \in {-4, -2, 2, 4}

C37_InputDeterminesEvents ==
    \A s, t \in Range(animatedSteps) \cup Range(desiredSteps) :
        s.input = t.input => s.events = t.events

\* The cell animated as the first step of the path is now the second step of
\* the desired path.
C37_Witness ==
    /\ Len(animatedSteps) >= 1
    /\ Len(desiredSteps) = 2
    /\ animatedSteps[1].input = desiredSteps[2].input


\* C38: a child of the active parallel animation that returned true at one
\* call of the animation returns true at the next call as well, whatever
\* setTurbo did in between, so the children that have returned true only grow
\* in number until the call at which all of them do.
C38_DoneStaysDone ==
    [][((\E d \in PaceDeltas : callUpdateAnimations(d)) /\ currentAnimation # NoAnimation)
          => frame.over \subseteq frame'.over]_vars


\* C39: right after every run of scheduleNextAnimation the inputs of
\* animatedSteps are a prefix of the inputs of desiredSteps.
C39_PrefixAfterRun ==
    [][(ObservedTick /\ frame'.reconciled) =>
          IsPrefix(Inputs(animatedSteps'), Inputs(desiredSteps'))]_vars

\* A run has rolled back to a shared prefix of one step, with a second step
\* of desiredSteps still to animate.
C39_Witness ==
    /\ frame.reconciled
    /\ frame.removed >= 1
    /\ Len(animatedSteps) = 1
    /\ Len(desiredSteps) = 2
    /\ animatedSteps[1].input = desiredSteps[1].input


\* C40: whenever the scheduler holds an animation the dirty flag
\* checkForAnimation is set, so the frame in which that animation finishes
\* runs scheduleNextAnimation.
C40_ActiveMeansDirty ==
    /\ [](currentAnimation # NoAnimation => checkForAnimation)
    /\ [][(ObservedTick /\ frame'.finished) => frame'.reconciled]_vars

\* The frame in which an animation finished ran the reconciliation, which
\* scheduled the animation of the next step.
C40_Witness ==
    /\ frame.finished
    /\ frame.reconciled
    /\ frame.scheduled # "none"
    /\ currentAnimation # NoAnimation
    /\ checkForAnimation

====
